---- MODULE Spec2Model ----
(***************************************************************************)
(* yearmonthdelta: a year/month offset for dates.  The module models the   *)
(* class yearmonthdelta of yearmonthdelta.py: its constructor, the lazy    *)
(* normalisation, the application to a date, the arithmetic and the        *)
(* comparison operators and str(), together with the part of the Python    *)
(* operator dispatch and of datetime/calendar that these methods rest on.  *)
(*                                                                         *)
(* Every Python value is a record with a "type" field; a raised exception  *)
(* is a record too (type "TypeError", "ValueError", "IllegalMonthError").  *)
(***************************************************************************)
EXTENDS Integers, Sequences, FiniteSets, TLC

VARIABLES
    a,              \* the yearmonthdelta instance the program holds (years, months, rounding)
    res,            \* the last evaluated expression: its operator, operands and outcome
    long_defined    \* whether the interpreter has the builtin name long (Python 2 has,
                    \* Python 3 has not); the module itself never defines it

vars == <<a, res, long_defined>>

(* ------------------------------ bounds --------------------------------- *)

\* |years| of the instances that are constructed and kept
MaxYears == 1
\* |months| of the instances that are constructed and kept
MaxMonths == 13

(* --------------------------- host constants ---------------------------- *)

\* datetime.MINYEAR and datetime.MAXYEAR, the years dt.replace accepts
MINYEAR == 1
MAXYEAR == 9999

(* ------------------------------ values --------------------------------- *)

\* the interpreter is Python 2: it is the one that has the builtin long
Python2 == long_defined

PyInt(n) == [type |-> "int", val |-> n]
PyFloat(n) == [type |-> "float", val |-> n]
PyStr(s) == [type |-> "str", val |-> s]
PyBool(v) == [type |-> "bool", val |-> v]
PyTuple(x, y) == [type |-> "tuple", items |-> <<x, y>>]
PyDate(y, m, d) == [type |-> "date", year |-> y, month |-> m, day |-> d]
NotImplemented == [type |-> "NotImplementedType"]
Raise(exc, fmt, args) == [type |-> exc, fmt |-> fmt, args |-> args]

IsRaised(v) == v.type \in {"TypeError", "ValueError", "IllegalMonthError", "NameError"}

\* the lookup of the name long in  isinstance(other, (int, long))  fails
NoLong == Raise("NameError", "name '{}' is not defined", <<"long">>)

\* type(x).__name__, as the methods of the class format it
TypeName(v) == v.type

\* the type name the interpreter itself prints in its own TypeErrors
TpName(v) == IF v.type = "date" THEN "datetime.date" ELSE v.type

\* yearmonthdelta.__init__
yearmonthdelta(years, months, rounding) ==
    [type |-> "yearmonthdelta", years |-> years, months |-> months,
     rounding |-> (rounding = TRUE)]

IsDelta(v) == v.type = "yearmonthdelta"
IsDate(v) == v.type = "date"
IsInt(v) == v.type = "int"

(* --------------------------- normalisation ----------------------------- *)

Abs(n) == IF n < 0 THEN -n ELSE n

\* mutant: the months of the remainder are not shifted back by one
_normalize_noshift(years, months) ==
    LET total == years * 12 + months
        y == Abs(total) \div 12
        m == Abs(total) % 12
    IN  IF total = 0 THEN <<0, 0>>
        ELSE IF total < 0 THEN <<-y, -m>> ELSE <<y, m>>

\* yearmonthdelta._normalize
_normalize(years, months) ==
    LET total == years * 12 + months
        y == (Abs(total) - 1) \div 12
        m == ((Abs(total) - 1) % 12) + 1
    IN  IF total = 0 THEN <<0, 0>>
        ELSE IF total < 0 THEN <<-y, -m>> ELSE <<y, m>>

(* ------------------------- calendar and dates -------------------------- *)

\* calendar.isleap
isleap(year) == year % 4 = 0 /\ (year % 100 # 0 \/ year % 400 = 0)

\* calendar.monthrange(year, month)[1], for an accepted year and month
mdays(year, month) ==
    IF month = 2 THEN (IF isleap(year) THEN 29 ELSE 28)
    ELSE IF month \in {4, 6, 9, 11} THEN 30 ELSE 31

\* the ValueError of the date type for a year outside MINYEAR..MAXYEAR:
\* Python 3 names the year in the text, Python 2 does not
YearError(year) ==
    IF Python2 THEN Raise("ValueError", "year is out of range", <<>>)
    ELSE Raise("ValueError", "year {} is out of range", <<year>>)

\* dt.replace(year, month, day): the fields are validated year first
replace(dt, year, month, day) ==
    IF year < MINYEAR \/ year > MAXYEAR
    THEN YearError(year)
    ELSE IF month < 1 \/ month > 12
    THEN Raise("ValueError", "month must be in 1..12", <<>>)
    ELSE IF day < 1 \/ day > mdays(year, month)
    THEN Raise("ValueError", "day is out of range for month", <<>>)
    ELSE PyDate(year, month, day)

\* mutant: the day is clamped whatever the rounding flag says
_add_datetime_clamp(self, dt) ==
    LET ym == _normalize(dt.year + self.years, dt.month + self.months)
    IN  IF ym[2] < 1 \/ ym[2] > 12
        THEN Raise("IllegalMonthError", "bad month number {}; must be 1-12", <<ym[2]>>)
        ELSE IF ym[1] < MINYEAR \/ ym[1] > MAXYEAR
        THEN YearError(ym[1])
        ELSE replace(dt, ym[1], ym[2],
                     IF dt.day < mdays(ym[1], ym[2]) THEN dt.day ELSE mdays(ym[1], ym[2]))

\* mutant: the total is split without the shift by one, so that month 12 of
\* the date is carried into the next year as month 0
_add_datetime_carry(self, dt) ==
    LET ym == _normalize_noshift(dt.year + self.years, dt.month + self.months)
        year == ym[1]
        month == ym[2]
    IN  IF self.rounding
        THEN IF month < 1 \/ month > 12
             THEN Raise("IllegalMonthError", "bad month number {}; must be 1-12", <<month>>)
             ELSE IF year < MINYEAR \/ year > MAXYEAR
             THEN YearError(year)
             ELSE replace(dt, year, month,
                          IF dt.day < mdays(year, month) THEN dt.day ELSE mdays(year, month))
        ELSE replace(dt, year, month, dt.day)

\* mutant: years and months are added field by field with a single carry,
\* instead of normalising the sum
_add_datetime_fieldwise(self, dt) ==
    LET m0 == dt.month + self.months
        y0 == dt.year + self.years
        year == IF m0 > 12 THEN y0 + 1 ELSE IF m0 < 1 THEN y0 - 1 ELSE y0
        month == IF m0 > 12 THEN m0 - 12 ELSE IF m0 < 1 THEN m0 + 12 ELSE m0
    IN  IF self.rounding
        THEN IF month < 1 \/ month > 12
             THEN Raise("IllegalMonthError", "bad month number {}; must be 1-12", <<month>>)
             ELSE IF year < MINYEAR \/ year > MAXYEAR
             THEN YearError(year)
             ELSE replace(dt, year, month,
                          IF dt.day < mdays(year, month) THEN dt.day ELSE mdays(year, month))
        ELSE replace(dt, year, month, dt.day)

\* yearmonthdelta._add_datetime
\* With rounding, calendar.monthrange runs first: it rejects a month outside
\* 1..12 with IllegalMonthError, and a year the date type cannot hold ends in
\* a ValueError (in monthrange or in dt.replace).
_add_datetime(self, dt) ==
    LET ym == _normalize(dt.year + self.years, dt.month + self.months)
        year == ym[1]
        month == ym[2]
    IN  IF self.rounding
        THEN IF month < 1 \/ month > 12
             THEN Raise("IllegalMonthError", "bad month number {}; must be 1-12", <<month>>)
             ELSE IF year < MINYEAR \/ year > MAXYEAR
             THEN YearError(year)
             ELSE replace(dt, year, month,
                          IF dt.day < mdays(year, month) THEN dt.day ELSE mdays(year, month))
        ELSE replace(dt, year, month, dt.day)

(* ------------------------ arithmetic methods --------------------------- *)

UnsupportedFmt(sym) == "unsupported operand type(s) for " \o sym \o ": '{}' and '{}'"

\* mutant: the sum allows rounding as soon as one operand allows it
__add__lenient(self, other) ==
    IF IsDate(other) THEN _add_datetime(self, other)
    ELSE IF IsDelta(other)
    THEN yearmonthdelta(self.years + other.years, self.months + other.months,
                        self.rounding \/ other.rounding)
    ELSE IF ~long_defined THEN NoLong
    ELSE IF IsInt(other)
    THEN yearmonthdelta(self.years, self.months + other.val, self.rounding)
    ELSE NotImplemented

\* yearmonthdelta.__add__
__add__(self, other) ==
    IF IsDate(other) THEN _add_datetime(self, other)
    ELSE IF IsDelta(other)
    THEN yearmonthdelta(self.years + other.years, self.months + other.months,
                        self.rounding /\ other.rounding)
    ELSE IF ~long_defined THEN NoLong
    ELSE IF IsInt(other)
    THEN yearmonthdelta(self.years, self.months + other.val, self.rounding)
    ELSE NotImplemented

\* yearmonthdelta.__radd__
__radd__(self, other) ==
    IF IsDate(other) THEN _add_datetime(self, other)
    ELSE Raise("TypeError", UnsupportedFmt("+"), <<TypeName(other), "yearmonthdelta">>)

\* yearmonthdelta.__pos__
__pos__(self) == yearmonthdelta(self.years, self.months, self.rounding)

\* mutant: the negated delta is built with the default rounding
__neg__default(self) == yearmonthdelta(-self.years, -self.months, TRUE)

\* yearmonthdelta.__neg__
__neg__(self) == yearmonthdelta(-self.years, -self.months, self.rounding)

\* the unary minus of the expression -other in __sub__
Negative(v) ==
    IF IsDelta(v) THEN __neg__(v)
    ELSE IF v.type \in {"int", "float"} THEN [v EXCEPT !.val = -v.val]
    ELSE Raise("TypeError", "bad operand type for unary -: '{}'", <<TpName(v)>>)

\* yearmonthdelta.__sub__
__sub__(self, other) ==
    LET negated == Negative(other)
    IN  IF IsRaised(negated) THEN negated ELSE __add__(self, negated)

\* yearmonthdelta.__rsub__
__rsub__(self, other) ==
    IF IsDate(other) THEN _add_datetime(__neg__(self), other)
    ELSE Raise("TypeError", UnsupportedFmt("-"), <<TypeName(other), "yearmonthdelta">>)

\* yearmonthdelta.__mul__
__mul__(self, other) ==
    IF ~long_defined THEN NoLong
    ELSE IF IsInt(other)
    THEN yearmonthdelta(self.years * other.val, self.months * other.val, self.rounding)
    ELSE NotImplemented

\* yearmonthdelta.__rmul__
__rmul__(self, other) ==
    LET product == __mul__(self, other)
    IN  IF product = NotImplemented
        THEN Raise("TypeError", UnsupportedFmt("*"), <<TypeName(other), "yearmonthdelta">>)
        ELSE product

\* The evaluation of  v sym w  for sym one of + - *: the method of the left
\* operand first, then the reflected method of the right operand unless both
\* have the same type; the methods of int, float, str and date know nothing of
\* yearmonthdelta and answer NotImplemented.
BinaryOp(sym, v, w) ==
    LET forward ==
            IF IsDelta(v)
            THEN CASE sym = "+" -> __add__(v, w)
                   [] sym = "-" -> __sub__(v, w)
                   [] OTHER     -> __mul__(v, w)
            ELSE NotImplemented
        reflected ==
            IF IsDelta(w) /\ ~IsDelta(v)
            THEN CASE sym = "+" -> __radd__(w, v)
                   [] sym = "-" -> __rsub__(w, v)
                   [] OTHER     -> __rmul__(w, v)
            ELSE NotImplemented
    IN  IF forward # NotImplemented THEN forward
        ELSE IF reflected # NotImplemented THEN reflected
        ELSE IF sym = "*" /\ w.type = "str"
        THEN Raise("TypeError", "can't multiply sequence by non-int of type '{}'",
                   <<TpName(v)>>)
        ELSE Raise("TypeError", UnsupportedFmt(sym), <<TpName(v), TpName(w)>>)

(* ----------------------------- comparison ------------------------------ *)

CompareFmt == "can't compare {} to {}"

\* mutant: the months are counted without the years
_total_months_only(self) == self.months

\* yearmonthdelta._total_months
_total_months(self) == self.years * 12 + self.months

\* yearmonthdelta.__lt__
__lt__(self, other) ==
    IF IsDelta(other) THEN PyBool(_total_months(self) < _total_months(other))
    ELSE Raise("TypeError", CompareFmt, <<"yearmonthdelta", TypeName(other)>>)

\* yearmonthdelta.__eq__
__eq__(self, other) ==
    IF IsDelta(other) THEN PyBool(_total_months(self) = _total_months(other))
    ELSE Raise("TypeError", CompareFmt, <<"yearmonthdelta", TypeName(other)>>)

\* yearmonthdelta.__ne__: not self.__eq__(other)
__ne__(self, other) ==
    LET eq == __eq__(self, other)
    IN  IF IsRaised(eq) THEN eq ELSE PyBool(~eq.val)

\* functools.total_ordering: __le__ is  self < other or self == other
__le__(self, other) ==
    LET lt == __lt__(self, other)
        eq == __eq__(self, other)
    IN  IF IsRaised(lt) THEN lt
        ELSE IF lt.val THEN lt
        ELSE eq

\* functools.total_ordering: __gt__ is  not (self < other or self == other)
__gt__(self, other) ==
    LET le == __le__(self, other)
    IN  IF IsRaised(le) THEN le ELSE PyBool(~le.val)

\* functools.total_ordering: __ge__ is  not self < other
__ge__(self, other) ==
    LET lt == __lt__(self, other)
    IN  IF IsRaised(lt) THEN lt ELSE PyBool(~lt.val)

CompareSyms == {"<", "<=", ">", ">=", "==", "!="}

\* the comparison method of the class that the symbol selects
RichMethod(sym, self, other) ==
    CASE sym = "<"  -> __lt__(self, other)
      [] sym = "<=" -> __le__(self, other)
      [] sym = ">"  -> __gt__(self, other)
      [] sym = ">=" -> __ge__(self, other)
      [] sym = "==" -> __eq__(self, other)
      [] OTHER      -> __ne__(self, other)

\* the symbol of the mirrored comparison:  v < w  is  w > v
Swapped(sym) ==
    CASE sym = "<"  -> ">"
      [] sym = "<=" -> ">="
      [] sym = ">"  -> "<"
      [] sym = ">=" -> "<="
      [] OTHER      -> sym

\* datetime.date on the left of a comparison with a yearmonthdelta.  Under
\* Python 2 the date answers itself: == is False, != is True and an ordering
\* raises the date's own TypeError; under Python 3 it answers NotImplemented.
DateCompare(sym, v, w) ==
    IF ~Python2 THEN NotImplemented
    ELSE IF sym = "==" THEN PyBool(FALSE)
    ELSE IF sym = "!=" THEN PyBool(TRUE)
    ELSE Raise("TypeError", CompareFmt, <<TpName(v), TpName(w)>>)

\* The evaluation of  v sym w  for a comparison: the method of a
\* yearmonthdelta on the left; else what the left operand answers, and when
\* that is NotImplemented (int, float and str always, date under Python 3)
\* the mirrored method of the yearmonthdelta on the right.
CompareOp(sym, v, w) ==
    IF IsDelta(v) THEN RichMethod(sym, v, w)
    ELSE LET forward == IF IsDate(v) THEN DateCompare(sym, v, w) ELSE NotImplemented
         IN  IF forward # NotImplemented THEN forward
             ELSE RichMethod(Swapped(sym), w, v)

(* ------------------------------ rendering ------------------------------ *)

Digits == <<"0", "1", "2", "3", "4", "5", "6", "7", "8", "9">>

RECURSIVE NatToStr(_)
NatToStr(n) == IF n < 10 THEN Digits[n + 1] ELSE NatToStr(n \div 10) \o Digits[(n % 10) + 1]

\* "{}".format(n) of an integer
IntToStr(n) == IF n < 0 THEN "-" \o NatToStr(-n) ELSE NatToStr(n)

\* mutant: only the count 1 is singular
_ngettext_positive(singular, plural, count) == IF count = 1 THEN singular ELSE plural

\* yearmonthdelta._ngettext
_ngettext(singular, plural, count) == IF Abs(count) = 1 THEN singular ELSE plural

\* yearmonthdelta.__str__
__str__(self) ==
    LET ym == _normalize(self.years, self.months)
        years == ym[1]
        months == ym[2]
    IN  PyStr(IntToStr(years) \o " " \o _ngettext("year", "years", years) \o " "
              \o IntToStr(months) \o " " \o _ngettext("month", "months", months))

(* --------------------------- inputs of the runs ------------------------ *)

None == [type |-> "NoneType"]

\* the instances the program constructs and keeps
Deltas ==
    {yearmonthdelta(y, m, r) : y \in -MaxYears..MaxYears, m \in -MaxMonths..MaxMonths,
                               r \in BOOLEAN}

\* years of the dates: the first and the last year of the calendar, a century
\* that is no leap year, a century that is one, and an ordinary leap year
DateYears == {MINYEAR, 100, 2000, 2004, MAXYEAR}

\* the valid dates with a day that some month lacks, or that every month has
Dates ==
    {dt \in {PyDate(y, m, d) : y \in DateYears, m \in 1..12, d \in 28..31} :
        dt.day <= mdays(dt.year, dt.month)}

\* the dates given to the operators that do not accept a date
SomeDates == {PyDate(2000, 1, 31), PyDate(2004, 2, 29)}

Ints == {PyInt(n) : n \in -2..2}

\* 1.0, 2.0 and two strings
NonNumbers == {PyFloat(1), PyFloat(2), PyStr("1"), PyStr("no go")}

\* the arguments of a direct call of _normalize
NormYears == (-MaxYears..MaxYears) \cup {2000}
NormMonths == -(MaxMonths + 12)..(MaxMonths + 12)

Evaluated(op, lhs, rhs, out) == [op |-> op, lhs |-> lhs, rhs |-> rhs, out |-> out]

\* no expression is under evaluation: the last outcome was bound or dropped
Nothing == Evaluated("none", None, None, None)

\* the program is between two statements
Idle == res = Nothing

(* ------------------------------ the program ---------------------------- *)

Init ==
    /\ a = yearmonthdelta(0, 0, TRUE)
    /\ res = Nothing
    /\ long_defined \in BOOLEAN

\* ymd = yearmonthdelta(years, months, rounding)
Construct ==
    /\ Idle
    /\ \E d \in Deltas : a' = d
    /\ UNCHANGED <<res, long_defined>>

\* yearmonthdelta._normalize(years, months)
Normalize ==
    /\ Idle
    /\ \E y \in NormYears, m \in NormMonths :
           /\ res' = Evaluated("_normalize", PyInt(y), PyInt(m),
                               PyTuple(_normalize(y, m)[1], _normalize(y, m)[2]))
           /\ UNCHANGED <<a, long_defined>>

\* ymd + other
Add ==
    /\ Idle
    /\ \E other \in Deltas \cup Ints \cup NonNumbers \cup Dates :
           /\ res' = Evaluated("+", a, other, BinaryOp("+", a, other))
           /\ UNCHANGED <<a, long_defined>>

\* other + ymd
RAdd ==
    /\ Idle
    /\ \E other \in Ints \cup NonNumbers \cup Dates :
           /\ res' = Evaluated("+", other, a, BinaryOp("+", other, a))
           /\ UNCHANGED <<a, long_defined>>

\* ymd - other
Sub ==
    /\ Idle
    /\ \E other \in Deltas \cup Ints \cup NonNumbers \cup SomeDates :
           /\ res' = Evaluated("-", a, other, BinaryOp("-", a, other))
           /\ UNCHANGED <<a, long_defined>>

\* other - ymd
RSub ==
    /\ Idle
    /\ \E other \in Ints \cup NonNumbers \cup Dates :
           /\ res' = Evaluated("-", other, a, BinaryOp("-", other, a))
           /\ UNCHANGED <<a, long_defined>>

\* ymd * other
Mul ==
    /\ Idle
    /\ \E other \in Deltas \cup Ints \cup NonNumbers \cup SomeDates :
           /\ res' = Evaluated("*", a, other, BinaryOp("*", a, other))
           /\ UNCHANGED <<a, long_defined>>

\* other * ymd
RMul ==
    /\ Idle
    /\ \E other \in Ints \cup NonNumbers \cup SomeDates :
           /\ res' = Evaluated("*", other, a, BinaryOp("*", other, a))
           /\ UNCHANGED <<a, long_defined>>

\* -ymd
Neg ==
    /\ Idle
    /\ res' = Evaluated("neg", a, None, __neg__(a))
    /\ UNCHANGED <<a, long_defined>>

\* +ymd
Pos ==
    /\ Idle
    /\ res' = Evaluated("pos", a, None, __pos__(a))
    /\ UNCHANGED <<a, long_defined>>

\* str(ymd)
Str ==
    /\ Idle
    /\ res' = Evaluated("str", a, None, __str__(a))
    /\ UNCHANGED <<a, long_defined>>

\* ymd < other, ymd == other, ... with another yearmonthdelta or another type
Compare ==
    /\ Idle
    /\ \E sym \in CompareSyms, other \in Deltas \cup Ints \cup NonNumbers \cup SomeDates :
           /\ res' = Evaluated(sym, a, other, CompareOp(sym, a, other))
           /\ UNCHANGED <<a, long_defined>>

\* other < ymd, other == ymd, ... with a value of another type on the left
RCompare ==
    /\ Idle
    /\ \E sym \in CompareSyms, other \in Ints \cup NonNumbers \cup SomeDates :
           /\ res' = Evaluated(sym, other, a, CompareOp(sym, other, a))
           /\ UNCHANGED <<a, long_defined>>

\* ymd = <the yearmonthdelta just computed>: the program goes on with the
\* result of an addition, a negation or a multiplication
Rebind ==
    /\ ~Idle
    /\ IsDelta(res.out)
    /\ Abs(res.out.years) <= MaxYears
    /\ Abs(res.out.months) <= MaxMonths
    /\ a' = res.out
    /\ res' = Nothing
    /\ UNCHANGED long_defined

\* the outcome of the expression statement is dropped
Discard ==
    /\ ~Idle
    /\ res' = Nothing
    /\ UNCHANGED <<a, long_defined>>

Next ==
    \/ Construct
    \/ Normalize
    \/ Add
    \/ RAdd
    \/ Sub
    \/ RSub
    \/ Mul
    \/ RMul
    \/ Neg
    \/ Pos
    \/ Str
    \/ Compare
    \/ RCompare
    \/ Rebind
    \/ Discard

Spec == Init /\ [][Next]_vars

\* the program under Python 2, the interpreter the module is written for
Python2Init == Init /\ long_defined

Python2Spec == Python2Init /\ [][Next]_vars

(* ------------------------------- claims -------------------------------- *)

Sign(n) == IF n < 0 THEN -1 ELSE IF n > 0 THEN 1 ELSE 0
Min(x, y) == IF x < y THEN x ELSE y

\* the expression applied a yearmonthdelta to a date with +, in either order
IsApply == res.op = "+" /\ ((IsDelta(res.lhs) /\ IsDate(res.rhs))
                            \/ (IsDate(res.lhs) /\ IsDelta(res.rhs)))
ApplyDelta == IF IsDelta(res.lhs) THEN res.lhs ELSE res.rhs
ApplyDate == IF IsDelta(res.lhs) THEN res.rhs ELSE res.lhs
\* the year and month the application aims at
Target == _normalize(ApplyDate.year + ApplyDelta.years, ApplyDate.month + ApplyDelta.months)
TargetInRange == Target[1] >= MINYEAR /\ Target[1] <= MAXYEAR

\* C1: _normalize(y, m) keeps the total y*12 + m; a total of 0 gives (0, 0);
\* otherwise 1 <= |m'| <= 12, m' has the sign of the total and
\* y' = sign(total) * ((|total| - 1) div 12).
C1_NormalizeCanonical ==
    res.op = "_normalize" =>
        LET total == res.lhs.val * 12 + res.rhs.val
            y == res.out.items[1]
            m == res.out.items[2]
        IN  /\ res.out.type = "tuple"
            /\ y * 12 + m = total
            /\ total = 0 => (y = 0 /\ m = 0)
            /\ total # 0 =>
                /\ 1 <= Abs(m) /\ Abs(m) <= 12
                /\ Sign(m) = Sign(total)
                /\ y = Sign(total) * ((Abs(total) - 1) \div 12)
                /\ Sign(y) # -Sign(total)

\* C1 witness: _normalize(1, -25) gave (-1, -1)
C1_Witness ==
    /\ res.op = "_normalize" /\ res.lhs.val = 1 /\ res.rhs.val = -25
    /\ res.out.items = <<-1, -1>>

\* C2: with rounding, and a target year the calendar has, date + delta is the
\* date (year', month', min(day, days of that month)), month' is in 1..12 and
\* year'*12 + month' is the sum of the two totals.
C2_RoundedApply ==
    (IsApply /\ ApplyDelta.rounding /\ TargetInRange) =>
        /\ Target[2] \in 1..12
        /\ Target[1] * 12 + Target[2] =
              ApplyDate.year * 12 + ApplyDate.month
              + ApplyDelta.years * 12 + ApplyDelta.months
        /\ res.out = PyDate(Target[1], Target[2],
                            Min(ApplyDate.day, mdays(Target[1], Target[2])))

\* C2 witness: 31 March 2004 plus (0, -1) with rounding became 29 February 2004
C2_Witness ==
    /\ IsApply /\ ApplyDelta.rounding
    /\ ApplyDate = PyDate(2004, 3, 31)
    /\ ApplyDelta.years = 0 /\ ApplyDelta.months = -1
    /\ res.out = PyDate(2004, 2, 29)

\* C3: without rounding, and a target year the calendar has, date + delta
\* fails with the day-out-of-range ValueError exactly when the day exceeds
\* the days of the target month, and else returns the date with its day.
C3_UnroundedApply ==
    (IsApply /\ ~ApplyDelta.rounding /\ TargetInRange) =>
        IF ApplyDate.day > mdays(Target[1], Target[2])
        THEN res.out = Raise("ValueError", "day is out of range for month", <<>>)
        ELSE res.out = PyDate(Target[1], Target[2], ApplyDate.day)

\* C3 witness: 31 March 2004 plus (0, -1) without rounding raised ValueError
C3_Witness ==
    /\ IsApply /\ ~ApplyDelta.rounding
    /\ ApplyDate = PyDate(2004, 3, 31)
    /\ ApplyDelta.years = 0 /\ ApplyDelta.months = -1
    /\ res.out.type = "ValueError"

\* the comparison of two integers that the symbol names
IntCompare(sym, x, y) ==
    CASE sym = "<"  -> x < y
      [] sym = "<=" -> x <= y
      [] sym = ">"  -> x > y
      [] sym = ">=" -> x >= y
      [] sym = "==" -> x = y
      [] OTHER      -> x # y

\* C4: each of the six comparisons of two yearmonthdeltas is the integer
\* comparison of years*12 + months of the two; rounding plays no part.
C4_CompareByTotal ==
    (res.op \in CompareSyms /\ IsDelta(res.lhs) /\ IsDelta(res.rhs)) =>
        res.out = PyBool(IntCompare(res.op,
                                    res.lhs.years * 12 + res.lhs.months,
                                    res.rhs.years * 12 + res.rhs.months))

\* C4 witness: (1, 0) >= (0, 12) was True although the rounding flags differ
C4_Witness ==
    /\ res.op = ">="
    /\ IsDelta(res.lhs) /\ res.lhs.years = 1 /\ res.lhs.months = 0
    /\ IsDelta(res.rhs) /\ res.rhs.years = 0 /\ res.rhs.months = 12
    /\ res.lhs.rounding # res.rhs.rounding
    /\ res.out = PyBool(TRUE)

\* C5: every comparison of a yearmonthdelta with a value of another type,
\* on either side of the symbol, raises TypeError and never yields a boolean.
C5_CompareOtherTypeFails ==
    (res.op \in CompareSyms /\ (IsDelta(res.lhs) # IsDelta(res.rhs))) =>
        res.out.type = "TypeError"

\* C6: the sum of two yearmonthdeltas has the raw sums of years and of months
\* and rounding only if both operands round; the operand is left as it was.
C6_AddRawSums ==
    (res.op = "+" /\ IsDelta(res.lhs) /\ IsDelta(res.rhs)) =>
        /\ res.out = [type |-> "yearmonthdelta",
                      years |-> res.lhs.years + res.rhs.years,
                      months |-> res.lhs.months + res.rhs.months,
                      rounding |-> (res.lhs.rounding /\ res.rhs.rounding)]
        /\ (~res.lhs.rounding \/ ~res.rhs.rounding) => ~res.out.rounding
        /\ a = res.lhs

\* C6 witness: (1, 0, True) + (1, 0, False) gave (2, 0, False), unnormalised sums
C6_Witness ==
    /\ res.op = "+"
    /\ res.lhs = yearmonthdelta(1, 0, TRUE)
    /\ res.rhs = yearmonthdelta(1, 0, FALSE)
    /\ res.out = yearmonthdelta(2, 0, FALSE)

\* C7: date - delta has the outcome of date + (-years, -months, rounding).
C7_SubtractIsAddNegated ==
    (res.op = "-" /\ IsDate(res.lhs) /\ IsDelta(res.rhs)) =>
        res.out = BinaryOp("+", res.lhs,
                           [type |-> "yearmonthdelta",
                            years |-> -res.rhs.years,
                            months |-> -res.rhs.months,
                            rounding |-> res.rhs.rounding])

\* C7 witness: 29 February 2004 minus (1, 0) without rounding raised ValueError
C7_Witness ==
    /\ res.op = "-"
    /\ res.lhs = PyDate(2004, 2, 29)
    /\ res.rhs = yearmonthdelta(1, 0, FALSE)
    /\ res.out = Raise("ValueError", "day is out of range for month", <<>>)

\* the operand combinations C8 lists
C8_Listed ==
    \/ res.op = "+" /\ IsDelta(res.lhs) /\ res.rhs.type = "str"
    \/ res.op = "+" /\ IsInt(res.lhs) /\ IsDelta(res.rhs)
    \/ res.op = "-" /\ IsInt(res.lhs) /\ IsDelta(res.rhs)
    \/ res.op = "-" /\ IsDelta(res.lhs) /\ res.rhs.type = "float"
    \/ res.op = "*" /\ IsDelta(res.lhs) /\ res.rhs.type = "float"
    \/ res.op = "*" /\ res.lhs.type = "float" /\ IsDelta(res.rhs)
    \/ res.op = "-" /\ IsDelta(res.lhs) /\ IsDate(res.rhs)

\* C8: arithmetic of a yearmonthdelta with an operand of an unsupported type
\* raises a TypeError that names the types of both operands.
C8_UnsupportedNamesBoth ==
    C8_Listed =>
        /\ res.out.type = "TypeError"
        /\ \/ res.out.args = <<TypeName(res.lhs), TypeName(res.rhs)>>
           \/ res.out.args = <<TpName(res.lhs), TpName(res.rhs)>>

\* C9: str() normalises first and renders count and label of the years and of
\* the months, the label singular exactly when the normalised count is 1 or -1.
C9_StrLabels ==
    res.op = "str" =>
        LET ym == _normalize(res.lhs.years, res.lhs.months)
            ylabel == IF ym[1] \in {1, -1} THEN "year" ELSE "years"
            mlabel == IF ym[2] \in {1, -1} THEN "month" ELSE "months"
        IN  res.out = PyStr(IntToStr(ym[1]) \o " " \o ylabel \o " "
                            \o IntToStr(ym[2]) \o " " \o mlabel)

\* C9 witness: str of (1, -13) was "0 years -1 month"
C9_Witness ==
    /\ res.op = "str"
    /\ res.lhs.years = 1 /\ res.lhs.months = -13
    /\ res.out = PyStr("0 years -1 month")

\* the constructed instances with the total months and the rounding of d:
\* one for each number of years that leaves the months within the bound
SameTotal(d) ==
    {yearmonthdelta(y, d.years * 12 + d.months - 12 * y, d.rounding) :
        y \in {z \in -MaxYears..MaxYears :
                 Abs(d.years * 12 + d.months - 12 * z) <= MaxMonths}}

\* C10: the outcome of date + delta is that of the same date with any other
\* yearmonthdelta of the same total months and rounding, its normalised form
\* among them.
C10_ApplyByTotal ==
    IsApply =>
        \A b \in SameTotal(ApplyDelta)
                 \cup {yearmonthdelta(_normalize(ApplyDelta.years, ApplyDelta.months)[1],
                                      _normalize(ApplyDelta.years, ApplyDelta.months)[2],
                                      ApplyDelta.rounding)} :
            res.out = BinaryOp("+", ApplyDate, b)

\* C10 witness: (1, -13) applied to 31 March 2004 gave what (0, -1) gives
C10_Witness ==
    /\ IsApply
    /\ ApplyDelta.years = 1 /\ ApplyDelta.months = -13 /\ ApplyDelta.rounding
    /\ ApplyDate = PyDate(2004, 3, 31)
    /\ res.out = PyDate(2004, 2, 29)

====
